---- MODULE Spec2Model ----
(***************************************************************************)
(* A model of the comms-bridge message router (src/src/index.ts).          *)
(*                                                                         *)
(* One CommsBridge instance is described by a record `b` holding the       *)
(* fields of the class.  The methods of the class are operators from a     *)
(* bridge record and the call's arguments to a record holding the new      *)
(* bridge state and everything the call did that can be seen from outside  *)
(* (the transports it called, what it raised, the promise it returned).    *)
(* The specifications below drive these operators from an environment      *)
(* (callers, incoming transports, timers, handler completions).            *)
(***************************************************************************)
EXTENDS Integers, Sequences, FiniteSets, TLC

(***************************************************************************)
(* Values.                                                                 *)
(***************************************************************************)

\* An absent optional string field (transportId?, senderId?, forwarderId?,
\* name?) or an absent payload.
undefined == "undefined"

\* An absent optional number field (id?, replyId?, timeout?).
undefinedNumber == 0 - 1

\* The id of the instance that is followed, and the ids of other instances.
Me == "me"
Peers == {"peer", "far"}

\* Transport ids a caller may register.  The empty string is a string like
\* any other for Map keys, and falsy in a condition.
TransportIds == {"", "t1"}

\* Transport ids a message may name: the registrable ones and one that is
\* never registered.
MsgTransportIds == TransportIds \cup {"t2"}

\* Message names; "" is falsy.
Names == {"n1", "n2"}

\* Payloads carried by messages.
Payloads == {"p1", "p2"}

\* The id counter is capped: no operation that stamps an id is taken once
\* MaxId ids were handed out.
MaxId == 2

\* At most MaxAsync handler promises are outstanding at a time.
MaxAsync == 1

defaultTimeout == 5000

\* A condition that takes every value for true.
Truthy_any(s) == TRUE

\* JavaScript truthiness of an optional string.
Truthy(s) == s # undefined /\ s # ""

\* outgoing is a Map: it iterates in insertion order, and set() of a key
\* that is present keeps the key's position.
Has(map, key) == \E i \in 1..Len(map) : map[i] = key

MapSet(map, key) == IF Has(map, key) THEN map ELSE Append(map, key)

MapDelete(map, key) == SelectSeq(map, LAMBDA k : k # key)

(***************************************************************************)
(* IMessage and IPackage.                                                  *)
(***************************************************************************)
IMessage(transportId, targetId, name, payload) ==
    [transportId |-> transportId, targetId |-> targetId,
     name |-> name, payload |-> payload]

IPackage(id, replyId, senderId, forwarderId, msg) ==
    [id |-> id, replyId |-> replyId, senderId |-> senderId,
     forwarderId |-> forwarderId, msg |-> msg]

NoPackage == IPackage(undefinedNumber, undefinedNumber, undefined, undefined,
                      IMessage(undefined, undefined, undefined, undefined))

ISendOptions(awaitReply, timeout) ==
    [awaitReply |-> awaitReply, timeout |-> timeout]

\* A promise as its caller sees it.  state "threw" is a call that raised
\* synchronously instead of returning a promise.
Promise(state, error, value) == [state |-> state, error |-> error, value |-> value]

NoPromise == Promise("none", undefined, undefined)

\* Settling a promise that is already settled has no effect.
Settle(p, state, error, value) ==
    IF p.state = "pending" THEN Promise(state, error, value) ELSE p

(***************************************************************************)
(* The state of one CommsBridge instance.                                  *)
(*   outgoing          the keys of the outgoing Map, in insertion order    *)
(*   responseHandlers  message name -> handler (undefined: no entry)       *)
(*   pendingResponses  the keys of the pendingResponses Map                *)
(*   timers            the ids whose setTimeout is armed                   *)
(***************************************************************************)
CommsBridge(id) ==
    [id |-> id, nextId |-> 1,
     responseHandlers |-> [n \in Names |-> undefined],
     outgoing |-> <<>>,
     pendingResponses |-> {},
     timers |-> {}]

(***************************************************************************)
(* Calls of IOutgoingTransport.send.  A transport is foreign code: its     *)
(* send may raise.  failAt = i makes the i-th send call of the operation   *)
(* raise; failAt = 0 makes none raise.                                     *)
(***************************************************************************)
TransportFailure == "TransportFailure"
TransportNotFound == "TransportNotFound"
NoTransport == "NoTransport"
ReplyTimeout == "ReplyTimeout"

\* A broadcast that stops after the first transport.
forEachOutgoing_first(outgoing, failAt) ==
    IF failAt = 1 /\ Len(outgoing) >= 1
    THEN [to |-> SubSeq(outgoing, 1, 1), raised |-> TransportFailure]
    ELSE [to |-> SubSeq(outgoing, 1, 1), raised |-> undefined]

\* A broadcast that catches what a transport raises and goes on.
forEachOutgoing_quiet(outgoing, failAt) ==
    [to |-> outgoing, raised |-> undefined]

\* for (const outgoingTransport of this.outgoing.values()) send(pkg)
forEachOutgoing(outgoing, failAt) ==
    IF failAt \in 1..Len(outgoing)
    THEN [to |-> SubSeq(outgoing, 1, failAt), raised |-> TransportFailure]
    ELSE [to |-> outgoing, raised |-> undefined]

_send(b, pkg, failAt) ==
    IF Truthy(pkg.msg.transportId)
    THEN IF ~ Has(b.outgoing, pkg.msg.transportId)
         THEN [to |-> <<>>, raised |-> TransportNotFound]
         ELSE [to |-> <<pkg.msg.transportId>>,
               raised |-> IF failAt = 1 THEN TransportFailure ELSE undefined]
    ELSE forEachOutgoing(b.outgoing, failAt)

\* options?.timeout || this.defaultTimeout
Duration(options) ==
    IF options.timeout = undefinedNumber \/ options.timeout = 0
    THEN defaultTimeout
    ELSE options.timeout

(***************************************************************************)
(* send(msg, options).  The result holds the new bridge, the package that  *)
(* was built (NoPackage if none), the transports whose send was called, in *)
(* order, the promise returned, and the duration of the timer started      *)
(* (undefinedNumber if none).                                              *)
(***************************************************************************)
\* A send that does not look at the size of the registry.
NoOutgoing_never(b) == FALSE

NoOutgoing(b) == Len(b.outgoing) = 0

send(b, msg, options, failAt) ==
    IF NoOutgoing(b)
    THEN [bridge |-> b, pkg |-> NoPackage, to |-> <<>>,
          promise |-> Promise("rejected", NoTransport, undefined),
          duration |-> undefinedNumber]
    ELSE LET wrappedMessage == IPackage(b.nextId, undefinedNumber, b.id, undefined, msg)
             b1 == [b EXCEPT !.nextId = @ + 1]
         IN  IF options.awaitReply
             THEN LET b2 == [b1 EXCEPT !.timers = @ \cup {wrappedMessage.id},
                                       !.pendingResponses = @ \cup {wrappedMessage.id}]
                      sent == _send(b2, wrappedMessage, failAt)
                  IN  [bridge |-> b2, pkg |-> wrappedMessage, to |-> sent.to,
                       promise |-> IF sent.raised # undefined
                                   THEN Promise("rejected", sent.raised, undefined)
                                   ELSE Promise("pending", undefined, undefined),
                       duration |-> Duration(options)]
             ELSE LET sent == _send(b1, wrappedMessage, failAt)
                  IN  [bridge |-> b1, pkg |-> wrappedMessage, to |-> sent.to,
                       promise |-> IF sent.raised # undefined
                                   THEN Promise("threw", sent.raised, undefined)
                                   ELSE Promise("resolved", undefined, undefined),
                       duration |-> undefinedNumber]

\* A timer callback that rejects and leaves the entry in pendingResponses.
onTimeout_keep(b, id) ==
    IF id \in b.pendingResponses
    THEN [bridge |-> [b EXCEPT !.timers = @ \ {id}], rejected |-> TRUE]
    ELSE [bridge |-> [b EXCEPT !.timers = @ \ {id}], rejected |-> FALSE]

\* A timer callback that deletes the entry and rejects nothing.
onTimeout_silent(b, id) ==
    [bridge |-> [b EXCEPT !.pendingResponses = @ \ {id}, !.timers = @ \ {id}],
     rejected |-> FALSE]

\* The callback given to setTimeout in send (lines 243-250).
onTimeout(b, id) ==
    IF id \in b.pendingResponses
    THEN [bridge |-> [b EXCEPT !.pendingResponses = @ \ {id}, !.timers = @ \ {id}],
          rejected |-> TRUE]
    ELSE [bridge |-> [b EXCEPT !.timers = @ \ {id}], rejected |-> FALSE]

(***************************************************************************)
(* handleIncomingMessage(incomingTransportId, pkg).                        *)
(*                                                                         *)
(* A handler is foreign code.  `result` is what the handler does when it   *)
(* is called: [kind |-> "throw"], [kind |-> "value", value |-> v] with v   *)
(* undefined (no result), "" (a falsy result) or a truthy result, or       *)
(* [kind |-> "promise"], a promise that completes later (onAsyncResult).   *)
(*                                                                         *)
(* The result holds the new bridge and what the call did:                  *)
(*   route     the branch taken                                            *)
(*   pkg, to   the package given to outgoing transports (NoPackage if      *)
(*             none) and the transports whose send was called, in order    *)
(*   raised    what the call raised into the incoming transport's callback *)
(*   resolved  the id whose pending resolve was called, with `value`       *)
(*   invoked   the handler that was called, with `arg`                     *)
(*   async     TRUE if a handler promise is left outstanding               *)
(***************************************************************************)
HandlerThrow == [kind |-> "throw", value |-> undefined]
HandlerValue(v) == [kind |-> "value", value |-> v]
HandlerPromise == [kind |-> "promise", value |-> undefined]

\* A router that raises when it finds no handler.
Routed_loud(b, route) ==
    [bridge |-> b, route |-> route, pkg |-> NoPackage, to |-> <<>>,
     raised |-> IF route = "noHandler" THEN "NoHandler" ELSE undefined,
     resolved |-> undefinedNumber, value |-> undefined,
     invoked |-> undefined, arg |-> undefined, async |-> FALSE]

Routed(b, route) ==
    [bridge |-> b, route |-> route, pkg |-> NoPackage, to |-> <<>>,
     raised |-> undefined, resolved |-> undefinedNumber, value |-> undefined,
     invoked |-> undefined, arg |-> undefined, async |-> FALSE]

\* A reply stamped without advancing the counter.
reply_reuse(b, incomingTransportId, pkg, result, failAt) ==
    LET replyPkg == IPackage(b.nextId, pkg.id, b.id, undefined,
                             IMessage(incomingTransportId, pkg.senderId,
                                      undefined, result))
        sent == _send(b, replyPkg, failAt)
    IN  [bridge |-> b, pkg |-> replyPkg, to |-> sent.to, raised |-> sent.raised]

\* A reply that carries the sender of the request as its sender.
reply_unsigned(b, incomingTransportId, pkg, result, failAt) ==
    LET replyPkg == IPackage(b.nextId, pkg.id, pkg.senderId, undefined,
                             IMessage(incomingTransportId, pkg.senderId,
                                      undefined, result))
        b1 == [b EXCEPT !.nextId = @ + 1]
        sent == _send(b1, replyPkg, failAt)
    IN  [bridge |-> b1, pkg |-> replyPkg, to |-> sent.to, raised |-> sent.raised]

\* The reply built for a handler result (lines 401-410 and 424-433).
reply(b, incomingTransportId, pkg, result, failAt) ==
    LET replyPkg == IPackage(b.nextId, pkg.id, b.id, undefined,
                             IMessage(incomingTransportId, pkg.senderId,
                                      undefined, result))
        b1 == [b EXCEPT !.nextId = @ + 1]
        sent == _send(b1, replyPkg, failAt)
    IN  [bridge |-> b1, pkg |-> replyPkg, to |-> sent.to, raised |-> sent.raised]

\* A reply path that resolves with the payload of another message.
resolvePending_stale(b, pkg) ==
    IF pkg.replyId \in b.pendingResponses
    THEN [Routed([b EXCEPT !.timers = @ \ {pkg.replyId},
                           !.pendingResponses = @ \ {pkg.replyId}], "resolve")
            EXCEPT !.resolved = pkg.replyId, !.value = "p1"]
    ELSE Routed(b, "noPending")

\* A reply path that leaves the entry in pendingResponses.
resolvePending_keep(b, pkg) ==
    IF pkg.replyId \in b.pendingResponses
    THEN [Routed([b EXCEPT !.timers = @ \ {pkg.replyId}], "resolve")
            EXCEPT !.resolved = pkg.replyId, !.value = pkg.msg.payload]
    ELSE Routed(b, "noPending")

\* A reply path that takes every reply for awaited.
resolvePending_any(b, pkg) ==
    [Routed([b EXCEPT !.timers = @ \ {pkg.replyId},
                      !.pendingResponses = @ \ {pkg.replyId}], "resolve")
        EXCEPT !.resolved = pkg.replyId, !.value = pkg.msg.payload]

\* Lines 339-361: a reply to a message of this instance.
resolvePending(b, pkg) ==
    IF pkg.replyId \in b.pendingResponses
    THEN [Routed([b EXCEPT !.timers = @ \ {pkg.replyId},
                           !.pendingResponses = @ \ {pkg.replyId}], "resolve")
            EXCEPT !.resolved = pkg.replyId, !.value = pkg.msg.payload]
    ELSE Routed(b, "noPending")

\* Lines 368-439: dispatch to the handler registered for the name.
dispatch(b, incomingTransportId, pkg, result, failAt) ==
    LET responseHandler == b.responseHandlers[pkg.msg.name]
        called == [Routed(b, "dispatch") EXCEPT !.invoked = responseHandler,
                                                !.arg = pkg.msg.payload]
    IN  IF pkg.msg.name \notin DOMAIN b.responseHandlers \/ responseHandler = undefined
        THEN Routed(b, "noHandler")
        ELSE IF result.kind = "throw"
        THEN called
        ELSE IF result.kind = "promise"
        THEN [called EXCEPT !.async = TRUE]
        ELSE IF Truthy(result.value)
        THEN LET r == reply(b, incomingTransportId, pkg, result.value, failAt)
             IN  [called EXCEPT !.bridge = r.bridge, !.pkg = r.pkg,
                                !.to = r.to, !.raised = r.raised]
        ELSE called

\* A router that does not look at forwarderId.
AlreadyForwarded_never(b, pkg) == FALSE

\* The conditions of lines 302, 309, 316 and 339.
AlreadyForwarded(b, pkg) == pkg.forwarderId = b.id

\* A router that does not look at senderId.
OwnMessage_never(b, pkg) == FALSE

OwnMessage(b, pkg) == pkg.senderId = b.id

\* A router that takes every package as its own.
NotForMe_never(b, pkg) == FALSE

NotForMe(b, pkg) == pkg.msg.targetId # b.id

\* A router without the reply step: a reply goes on to the handlers.
IsReply_never(pkg) == FALSE

\* A router that takes a package for a reply only if it has no name.
IsReply_unnamed(pkg) == pkg.replyId # undefinedNumber /\ ~ Truthy(pkg.msg.name)

\* A router that takes a package for a reply only if its payload is p1.
IsReply_payload(pkg) == pkg.replyId # undefinedNumber /\ pkg.msg.payload = "p1"

IsReply(pkg) == pkg.replyId # undefinedNumber

\* A forwarder that signs the package as its sender too.
stamp_resign(b, pkg) == [pkg EXCEPT !.forwarderId = b.id, !.senderId = b.id]

\* Line 330: pkg.forwarderId = this.id.
stamp(b, pkg) == [pkg EXCEPT !.forwarderId = b.id]

handleIncomingMessage(b, incomingTransportId, pkg, result, failAt) ==
    IF AlreadyForwarded(b, pkg)
    THEN Routed(b, "ignoreForwarded")
    ELSE IF OwnMessage(b, pkg)
    THEN Routed(b, "ignoreOwn")
    ELSE IF NotForMe(b, pkg)
    THEN LET forwarded == stamp(b, pkg)
             sent == forEachOutgoing(b.outgoing, failAt)
         IN  [Routed(b, "forward") EXCEPT !.pkg = forwarded, !.to = sent.to,
                                          !.raised = sent.raised]
    ELSE IF IsReply(pkg)
    THEN resolvePending(b, pkg)
    ELSE IF ~ Truthy(pkg.msg.name)
    THEN Routed(b, "noName")
    ELSE dispatch(b, incomingTransportId, pkg, result, failAt)

(***************************************************************************)
(* The completion of a handler promise (lines 389-416).  `outcome` is      *)
(* "reject" or the value the promise resolves with.  What the reply's      *)
(* _send raises is caught by the last catch: `contained`.                  *)
(***************************************************************************)
\* A completion that answers a failed handler promise with an error reply.
onAsyncResult_report(b, incomingTransportId, pkg, outcome, failAt) ==
    LET r == reply(b, incomingTransportId, pkg, "HandlerFailure", failAt)
    IN  [bridge |-> r.bridge, pkg |-> r.pkg, to |-> r.to,
         raised |-> undefined, contained |-> r.raised]

onAsyncResult(b, incomingTransportId, pkg, outcome, failAt) ==
    IF outcome # "reject" /\ Truthy(outcome)
    THEN LET r == reply(b, incomingTransportId, pkg, outcome, failAt)
         IN  [bridge |-> r.bridge, pkg |-> r.pkg, to |-> r.to,
              raised |-> undefined, contained |-> r.raised]
    ELSE [bridge |-> b, pkg |-> NoPackage, to |-> <<>>,
          raised |-> undefined,
          contained |-> IF outcome = "reject" THEN "HandlerFailure" ELSE undefined]

(***************************************************************************)
(* respond, addOutgoing, removeOutgoing.                                   *)
(***************************************************************************)
\* A registry that keeps the first handler of a name.
respond_first(b, messageName, handlerFn) ==
    IF b.responseHandlers[messageName] # undefined THEN b
    ELSE [b EXCEPT !.responseHandlers[messageName] = handlerFn]

respond(b, messageName, handlerFn) ==
    [b EXCEPT !.responseHandlers[messageName] = handlerFn]

addOutgoing(b, id) == [b EXCEPT !.outgoing = MapSet(@, id)]

removeOutgoing(b, id) == [b EXCEPT !.outgoing = MapDelete(@, id)]

(***************************************************************************)
(* addIncoming, removeIncoming.  `incoming` is the Map of the class: id ->  *)
(* transport (undefined: no entry).  The result holds the new Map and the  *)
(* calls made to transports, in order.                                     *)
(***************************************************************************)
TransportCall(transport, call) == [transport |-> transport, call |-> call]

addIncoming(incoming, id, incomingTransport) ==
    [incoming |-> [incoming EXCEPT ![id] = incomingTransport],
     calls |-> <<TransportCall(incomingTransport, "connect")>>]

\* A removeIncoming that leaves the entry in the Map.
removeIncoming_keep(incoming, id) ==
    LET transport == incoming[id]
    IN  [incoming |-> incoming,
         calls |-> IF transport # undefined
                   THEN <<TransportCall(transport, "disconnect")>>
                   ELSE <<>>]

removeIncoming(incoming, id) ==
    LET transport == incoming[id]
    IN  [incoming |-> [incoming EXCEPT ![id] = undefined],
         calls |-> IF transport # undefined
                   THEN <<TransportCall(transport, "disconnect")>>
                   ELSE <<>>]

(***************************************************************************)
(* The followed instance and its environment.                              *)
(*                                                                         *)
(*   nextId, responseHandlers, outgoing, pendingResponses                  *)
(*             the fields of the instance                                  *)
(*   timers    the ids of the awaited sends whose timer is armed           *)
(*   asyncs    the handler promises that have not completed; each keeps    *)
(*             what its completion closes over: the incoming transport id  *)
(*             and the id and sender of the request package                *)
(*   watch     the id of the send whose promise is followed                *)
(*   promise   the promise returned by the send that was stamped `watch`   *)
(*   settles   how often the reply path or the timer called that           *)
(*             promise's resolve or reject                                 *)
(*   delivered the transports that were given the package this instance    *)
(*             stamped `watch`, in the order of the calls                  *)
(*   call      the record of the operation that stamped `watch`            *)
(*   last      what the latest operation was given and what it did         *)
(***************************************************************************)
VARIABLES nextId, responseHandlers, outgoing, pendingResponses, timers,
          asyncs, watch, promise, settles, delivered, call, last

\* A network of relaying instances (NetSpec):
\*   links     <<m, n>>: m has an outgoing transport, registered under the
\*             id n, that hands its packages to an incoming transport of n
\*   flight    the packages handed to a transport and not yet delivered
\*   forwards  how often each instance has forwarded the message
VARIABLES links, flight, forwards

\* A second instance that answers the first (E2ESpec):
\*   remote    bridge, the instance far; asyncs, the handler promises of far
\*             that have not completed
VARIABLE remote

\* The incoming side (RegistrySpec):
\*   incoming  the incoming Map of the instance: id -> transport
\*   wired     for every incoming transport, the ids its connected
\*             callbacks close over: connect adds one, disconnect drops all
VARIABLES incoming, wired

IncomingIds == {"", "i1"}

IncomingTransports == {"A", "B"}

regVars == <<incoming, wired>>

netVars == <<links, flight, forwards, remote>>

bridgeVars == <<nextId, responseHandlers, outgoing, pendingResponses, timers>>

vars == <<nextId, responseHandlers, outgoing, pendingResponses, timers,
          asyncs, watch, promise, settles, delivered, call, last,
          links, flight, forwards, remote, incoming, wired>>

This ==
    [id |-> Me, nextId |-> nextId, responseHandlers |-> responseHandlers,
     outgoing |-> outgoing, pendingResponses |-> pendingResponses,
     timers |-> timers]

Becomes(b) ==
    /\ nextId' = b.nextId
    /\ responseHandlers' = b.responseHandlers
    /\ outgoing' = b.outgoing
    /\ pendingResponses' = b.pendingResponses
    /\ timers' = b.timers
    /\ UNCHANGED netVars
    /\ UNCHANGED regVars

NoOptions == ISendOptions(FALSE, undefinedNumber)

\* The record of an operation: what it was given (msg, options for send;
\* via, in for an incoming package, `again` if that is the package the
\* operation before gave to the transports; timer, the id of the timer that
\* fired; id, the id given to removeOutgoing, addIncoming or removeIncoming;
\* calls, the calls made to incoming transports; result, what
\* the handler that was called did, or what its promise completed with;
\* fault, which of the send's transport calls raised, 0 if none; passed, the
\* options the send gave to the transports;
\* outgoing, the registry when it started) and what it did.
Op(name) ==
    [op |-> name,
     msg |-> NoPackage.msg, options |-> NoOptions,
     via |-> undefined, in |-> NoPackage,
     id |-> undefined, result |-> HandlerValue(undefined), calls |-> <<>>,
     outgoing |-> outgoing,
     out |-> NoPackage, to |-> <<>>, raised |-> undefined,
     promise |-> NoPromise, duration |-> undefinedNumber,
     route |-> undefined, resolved |-> undefinedNumber, value |-> undefined,
     invoked |-> undefined, arg |-> undefined, rejected |-> FALSE,
     contained |-> undefined, again |-> FALSE, timer |-> undefinedNumber,
     fault |-> 0, passed |-> NoOptions, handler |-> undefined,
     echo |-> NoPackage, echoed |-> <<>>, at |-> Me,
     reentry |-> [by |-> undefined, call |-> undefined, id |-> undefined]]

\* The calls that gave transports the package this instance stamped `watch`.
Watched(pkg, to) ==
    IF pkg.senderId = Me /\ pkg.id = watch THEN delivered \o to ELSE delivered

\* The operation that stamped `watch` is kept.
Stamps(b) == nextId <= watch /\ watch < b.nextId

Recorded(b) == call' = IF Stamps(b) THEN last' ELSE call

Nodes == {"a", "b", "c"}

Constructed ==
    /\ nextId = CommsBridge(Me).nextId
    /\ responseHandlers = CommsBridge(Me).responseHandlers
    /\ outgoing = CommsBridge(Me).outgoing
    /\ pendingResponses = CommsBridge(Me).pendingResponses
    /\ timers = CommsBridge(Me).timers
    /\ asyncs = {}
    /\ watch \in 1..MaxId
    /\ promise = NoPromise
    /\ settles = 0
    /\ delivered = <<>>
    /\ call = Op("new")
    /\ last = Op("new")
    /\ incoming = [id \in IncomingIds |-> undefined]
    /\ wired = [t \in IncomingTransports |-> {}]

NoRemote == [bridge |-> CommsBridge("far"), asyncs |-> {}]

Init ==
    /\ Constructed
    /\ links = {}
    /\ flight = <<>>
    /\ forwards = [n \in Nodes |-> 0]
    /\ remote = NoRemote

Respond(messageName, handlerFn) ==
    /\ Becomes(respond(This, messageName, handlerFn))
    /\ last' = [Op("respond") EXCEPT !.id = messageName, !.handler = handlerFn]
    /\ UNCHANGED <<asyncs, watch, promise, settles, delivered, call>>

AddOutgoing(id) ==
    /\ Becomes(addOutgoing(This, id))
    /\ last' = Op("addOutgoing")
    /\ UNCHANGED <<asyncs, watch, promise, settles, delivered, call>>

RemoveOutgoing(id) ==
    /\ Becomes(removeOutgoing(This, id))
    /\ last' = [Op("removeOutgoing") EXCEPT !.id = id]
    /\ UNCHANGED <<asyncs, watch, promise, settles, delivered, call>>

\* The options argument of the calls outgoingTransport.send(pkg) of lines
\* 282 and 290: _send is not given the options of send and passes none.
passedOptions(options) == NoOptions

\* The transport call of a send that raises: the failAt-th, if the send
\* makes that many calls; 0 if none raises.
Fault(b, msg, failAt) ==
    IF Truthy(msg.transportId)
    THEN IF Has(b.outgoing, msg.transportId) /\ failAt = 1 THEN 1 ELSE 0
    ELSE IF failAt \in 1..Len(b.outgoing) THEN failAt ELSE 0

Send(msg, options, failAt) ==
    LET r == send(This, msg, options, failAt)
    IN  /\ r.bridge.nextId <= MaxId + 1
        /\ Becomes(r.bridge)
        /\ promise' = IF r.pkg.id = watch THEN r.promise ELSE promise
        /\ delivered' = Watched(r.pkg, r.to)
        /\ last' = [Op("send") EXCEPT !.msg = msg, !.options = options,
                                      !.out = r.pkg, !.to = r.to,
                                      !.promise = r.promise,
                                      !.duration = r.duration,
                                      !.fault = Fault(This, msg, failAt),
                                      !.passed = passedOptions(options)]
        /\ Recorded(r.bridge)
        /\ UNCHANGED <<asyncs, watch, settles>>

Timeout(id) ==
    LET r == onTimeout(This, id)
    IN  /\ id \in timers
        /\ Becomes(r.bridge)
        /\ promise' = IF r.rejected /\ id = watch
                      THEN Settle(promise, "rejected", ReplyTimeout, undefined)
                      ELSE promise
        /\ settles' = IF r.rejected /\ id = watch THEN settles + 1 ELSE settles
        /\ last' = [Op("timeout") EXCEPT !.timer = id, !.rejected = r.rejected]
        /\ UNCHANGED <<asyncs, watch, delivered, call>>

\* An incoming transport delivers pkg while at most `open` handler promises
\* are outstanding.
ReceiveUpTo(open, incomingTransportId, pkg, result, failAt) ==
    LET r == handleIncomingMessage(This, incomingTransportId, pkg, result, failAt)
    IN  /\ r.bridge.nextId <= MaxId + 1
        /\ r.async => Cardinality(asyncs) < open
        /\ Becomes(r.bridge)
        /\ asyncs' = IF r.async
                     THEN asyncs \cup {[via |-> incomingTransportId, id |-> pkg.id,
                                        senderId |-> pkg.senderId]}
                     ELSE asyncs
        /\ promise' = IF r.resolved = watch
                      THEN Settle(promise, "resolved", undefined, r.value)
                      ELSE promise
        /\ settles' = IF r.resolved = watch THEN settles + 1 ELSE settles
        /\ delivered' = Watched(r.pkg, r.to)
        /\ last' = [Op("receive") EXCEPT !.via = incomingTransportId, !.in = pkg,
                                         !.out = r.pkg, !.to = r.to,
                                         !.raised = r.raised, !.route = r.route,
                                         !.resolved = r.resolved, !.value = r.value,
                                         !.invoked = r.invoked, !.arg = r.arg,
                                         !.result = IF r.invoked # undefined
                                                    THEN result
                                                    ELSE HandlerValue(undefined),
                                         !.again = (pkg = last.out)]
        /\ Recorded(r.bridge)
        /\ UNCHANGED watch

Receive(incomingTransportId, pkg, result, failAt) ==
    ReceiveUpTo(MaxAsync, incomingTransportId, pkg, result, failAt)

\* What the calls do to the transports: connect wires a callback that closes
\* over id, disconnect drops the callbacks of the transport.
Wire(w, calls, id) ==
    [t \in IncomingTransports |->
        IF \E i \in DOMAIN calls : calls[i] = TransportCall(t, "disconnect") THEN {}
        ELSE IF \E i \in DOMAIN calls : calls[i] = TransportCall(t, "connect")
        THEN w[t] \cup {id}
        ELSE w[t]]

AddIncoming(id, incomingTransport) ==
    LET r == addIncoming(incoming, id, incomingTransport)
    IN  /\ incoming' = r.incoming
        /\ wired' = Wire(wired, r.calls, id)
        /\ last' = [Op("addIncoming") EXCEPT !.id = id, !.calls = r.calls]
        /\ UNCHANGED <<bridgeVars, netVars, asyncs, watch, promise, settles,
                       delivered, call>>

RemoveIncoming(id) ==
    LET r == removeIncoming(incoming, id)
    IN  /\ incoming' = r.incoming
        /\ wired' = Wire(wired, r.calls, id)
        /\ last' = [Op("removeIncoming") EXCEPT !.id = id, !.calls = r.calls]
        /\ UNCHANGED <<bridgeVars, netVars, asyncs, watch, promise, settles,
                       delivered, call>>

\* A completion that reads the package handled last, not its own.
Request_last(a) == last.in

\* The request a handler promise closes over, as far as its completion
\* reads it.

Request(a) ==
    IPackage(a.id, undefinedNumber, a.senderId, undefined,
             IMessage(undefined, Me, undefined, undefined))

AsyncResult(a, outcome, failAt) ==
    LET r == onAsyncResult(This, a.via, Request(a), outcome, failAt)
    IN  /\ a \in asyncs
        /\ r.bridge.nextId <= MaxId + 1
        /\ Becomes(r.bridge)
        /\ asyncs' = asyncs \ {a}
        /\ delivered' = Watched(r.pkg, r.to)
        /\ last' = [Op("asyncResult") EXCEPT !.via = a.via, !.in = Request(a),
                                             !.out = r.pkg, !.to = r.to,
                                             !.raised = r.raised,
                                             !.result = HandlerValue(outcome),
                                             !.contained = r.contained]
        /\ Recorded(r.bridge)
        /\ UNCHANGED <<watch, promise, settles>>

(***************************************************************************)
(* Spec: callers send on an instance whose outgoing registry changes, and  *)
(* timers fire.                                                            *)
(***************************************************************************)
FailAts == 0..2

\* What callers pass to send.
Messages ==
    { IMessage(t, "far", "n1", "p1") : t \in {undefined} \cup MsgTransportIds }

Options ==
    { ISendOptions(a, undefinedNumber) : a \in BOOLEAN }

Next ==
    \/ \E id \in TransportIds : AddOutgoing(id)
    \/ \E id \in TransportIds : RemoveOutgoing(id)
    \/ \E msg \in Messages, options \in Options, failAt \in FailAts :
          Send(msg, options, failAt)
    \/ \E id \in 1..MaxId : Timeout(id)

Spec == Init /\ [][Next]_vars

(***************************************************************************)
(* Properties of sending (Spec).                                           *)
(***************************************************************************)
Count(seq, x) == Cardinality({ i \in DOMAIN seq : seq[i] = x })

\* C1: an untargeted send (no transportId) on an instance with N >= 1
\* registered outgoing transports, none of whose send raises, calls the send
\* of every one of the N transports exactly once with the package, and no
\* later operation gives the package to a transport again: a timer that
\* fires calls no transport.
C1_BroadcastOnce ==
    /\ (/\ last.op = "send"
        /\ last.msg.transportId = undefined
        /\ Len(last.outgoing) >= 1
        /\ last.promise.error # TransportFailure)
       => /\ Len(last.to) = Len(last.outgoing)
          /\ \A i \in DOMAIN last.outgoing : Count(last.to, last.outgoing[i]) = 1
          /\ last.out.id = nextId - 1
    /\ (/\ call.op = "send"
        /\ call.msg.transportId = undefined
        /\ call.promise.error # TransportFailure)
       => \A t \in TransportIds : Count(delivered, t) = Count(call.outgoing, t)
    /\ last.op = "timeout" => last.to = <<>>

\* C1, witness: the timer of an untargeted send that reached two transports
\* has fired, and each of the two was called once.
C1_Witness ==
    /\ last.op = "timeout" /\ last.timer = watch /\ last.rejected
    /\ call.op = "send" /\ call.msg.transportId = undefined
    /\ Len(call.outgoing) = 2
    /\ delivered = call.outgoing

\* C2: a send whose message carries transportId = X, X a registered
\* outgoing transport, calls the send of X exactly once and of no other
\* transport.
C2_TargetedOnly ==
    (/\ last.op = "send"
     /\ last.msg.transportId # undefined
     /\ Has(last.outgoing, last.msg.transportId))
    => last.to = <<last.msg.transportId>>

\* C3: a send whose message carries transportId = X, X not registered while
\* another outgoing transport is, fails with the transport-not-found error,
\* awaited or not, and no transport is called.
C3_UnknownTransportFails ==
    (/\ last.op = "send"
     /\ last.msg.transportId # undefined
     /\ ~ Has(last.outgoing, last.msg.transportId)
     /\ Len(last.outgoing) >= 1)
    => /\ last.promise.state \in {"rejected", "threw"}
       /\ last.promise.error = TransportNotFound
       /\ last.to = <<>>

\* C4: a send on an instance with no outgoing transport, awaited or not,
\* targeted or not, fails with the no-transport error; no transport is
\* called, no package is built and no timer is started.
C4_NoTransportFails ==
    (last.op = "send" /\ Len(last.outgoing) = 0)
    => /\ last.promise = Promise("rejected", NoTransport, undefined)
       /\ last.to = <<>>
       /\ last.out = NoPackage
       /\ last.duration = undefinedNumber

\* C4, witness: an awaited, targeted send was made on an empty registry.
C4_Witness ==
    /\ last.op = "send" /\ Len(last.outgoing) = 0
    /\ last.options.awaitReply /\ last.msg.transportId = "t1"
    /\ last.promise.error = NoTransport

\* C14: after removeOutgoing(X), a send whose message carries
\* transportId = X fails with the transport-not-found error and calls no
\* transport, whatever other outgoing transports remain, none included.
C14_RemovedTransportFails ==
    [][ (/\ last.op = "removeOutgoing"
         /\ last'.op = "send"
         /\ last'.msg.transportId = last.id)
        => /\ last'.promise.state \in {"rejected", "threw"}
           /\ last'.promise.error = TransportNotFound
           /\ last'.to = <<>> ]_vars

\* A send that gave its package to the transports.
Succeeded(op) == op.op = "send" /\ op.promise.state \in {"resolved", "pending"}

\* C17: the ids carried by the successful sends are 1, 2, 3, ... with no
\* gaps: when a successful send carries an id above k, the id k was stamped
\* on a successful send, for every k >= 1.
C17_NoGaps == (Succeeded(last) /\ last.out.id > watch) => Succeeded(call)

\* C23: every call of an outgoing transport's send made for a send of a
\* caller is given the options the caller gave to send.
C23_OptionsPassed ==
    (last.op = "send" /\ last.to # <<>>) => last.passed = last.options

\* C30: in a send that awaits no reply and names no transport, when the send
\* of one outgoing transport raises, the call of send raises the same to its
\* caller: it returns no promise, and the transports after the one that
\* raised are not called.
C30_TransportFailureSurfaces ==
    (/\ last.op = "send"
     /\ ~ last.options.awaitReply
     /\ last.msg.transportId = undefined
     /\ last.fault >= 1)
    => /\ last.promise = Promise("threw", TransportFailure, undefined)
       /\ last.to = SubSeq(last.outgoing, 1, last.fault)

\* C30, witness: the first of two transports raised in such a send.
C30_Witness ==
    /\ last.op = "send" /\ ~ last.options.awaitReply
    /\ last.msg.transportId = undefined
    /\ Len(last.outgoing) = 2 /\ last.fault = 1
    /\ last.promise.state = "threw"

\* C38: the pending table holds exactly the ids of the awaited sends whose
\* call has not completed: while the followed awaited call is pending its
\* id is in the table, and once it is resolved or rejected, also when it
\* was rejected because the delivery failed, neither an entry nor a live
\* timer remains for its id.
C38_PendingIffOpen ==
    (call.op = "send" /\ call.options.awaitReply /\ call.out.id = watch)
    => /\ promise.state = "pending" => watch \in pendingResponses
       /\ promise.state \in {"resolved", "rejected"}
          => watch \notin pendingResponses /\ watch \notin timers

(***************************************************************************)
(* ReplySpec: callers send, awaiting a reply or not; packages addressed to *)
(* this instance arrive, most of them replies; timers fire.                *)
(***************************************************************************)
ReplyTransportIds == {"t1"}

ReplyMessages == { IMessage(t, "far", "n1", "p1") : t \in {undefined, "t2"} }

Replies ==
    { IPackage(1, r, s, undefined, IMessage(undefined, Me, n, p)) :
        r \in 1..MaxId, s \in {"peer", Me}, n \in {undefined, "n1"}, p \in Payloads }

ReplyNext ==
    \/ \E id \in ReplyTransportIds : AddOutgoing(id)
    \/ \E id \in ReplyTransportIds : RemoveOutgoing(id)
    \/ Respond("n1", "h1")
    \/ \E msg \in ReplyMessages, options \in Options, failAt \in 0..1 :
          Send(msg, options, failAt)
    \/ \E id \in 1..MaxId : Timeout(id)
    \/ \E pkg \in Replies : Receive("t1", pkg, HandlerValue("r1"), 0)

ReplySpec == Init /\ [][ReplyNext]_vars

\* A package that reaches the router's reply step: addressed to this
\* instance, and neither sent nor forwarded by it.
ForMe(pkg) ==
    pkg.msg.targetId = Me /\ pkg.senderId # Me /\ pkg.forwarderId # Me

\* C5: while the call of the awaited send stamped k is open (its delivery
\* did not fail, no reply has resolved it, its timer has not fired), the
\* first incoming package addressed to this instance with replyId = k
\* resolves the call with exactly that package's payload.
C5_ReplyResolves ==
    [][ (/\ last'.op = "receive"
         /\ ForMe(last'.in)
         /\ last'.in.replyId = watch
         /\ promise.state = "pending")
        => promise' = Promise("resolved", undefined, last'.in.msg.payload) ]_vars

\* C5, witness: the followed call was resolved with the payload p2 of a reply.
C5_Witness ==
    /\ last.op = "receive" /\ last.route = "resolve" /\ last.resolved = watch
    /\ last.in.msg.payload = "p2"
    /\ call.op = "send" /\ call.options.awaitReply
    /\ promise = Promise("resolved", undefined, "p2")

\* C6: when the timer of an awaited send fires while the call is open, the
\* call is rejected with the timeout error; a rejected call never changes;
\* and a matching reply that arrives after the timeout is discarded: it
\* settles nothing, calls no transport and no handler and changes no state.
C6_TimeoutRejects ==
    [][ /\ (last'.op = "timeout" /\ last'.timer = watch /\ promise.state = "pending")
           => promise' = Promise("rejected", ReplyTimeout, undefined)
        /\ promise.state = "rejected" => promise' = promise
        /\ (/\ promise = Promise("rejected", ReplyTimeout, undefined)
            /\ last'.op = "receive"
            /\ last'.in.replyId = watch)
           => /\ UNCHANGED <<bridgeVars, asyncs, settles, delivered>>
              /\ last'.resolved = undefinedNumber
              /\ last'.to = <<>>
              /\ last'.invoked = undefined ]_vars

\* C6, witness: a reply for the followed call arrived after its timeout.
C6_Witness ==
    /\ last.op = "receive" /\ ForMe(last.in) /\ last.in.replyId = watch
    /\ last.route = "noPending"
    /\ promise = Promise("rejected", ReplyTimeout, undefined)

\* C7: the reply path and the timer together call the resolve or reject of
\* a call at most once; a settled call never changes, so no call is both
\* resolved and rejected; the event that acts removes the pending entry and
\* the timer, so the other event finds nothing; and an awaited send never
\* puts its entry on an id that has one.
C7_SettledOnce ==
    /\ [](/\ settles <= 1
          /\ last.op = "timeout" => last.timer \notin pendingResponses \cup timers
          /\ last.route = "resolve" => last.resolved \notin pendingResponses \cup timers)
    /\ [][ /\ promise.state \in {"resolved", "rejected", "threw"} => promise' = promise
           /\ (last'.op = "send" /\ last'.options.awaitReply /\ last'.out # NoPackage)
              => last'.out.id \notin pendingResponses ]_vars

\* C7, witness: a second reply for a call that a reply resolved.
C7_Witness ==
    /\ last.op = "receive" /\ ForMe(last.in) /\ last.in.replyId = watch
    /\ last.route = "noPending"
    /\ promise.state = "resolved" /\ settles = 1

\* C10: an incoming reply addressed to this instance whose replyId has no
\* pending response is dropped: no field of the instance changes, no call
\* is settled, no handler and no transport is called, nothing is raised.
C10_StrayReplyDropped ==
    [][ (/\ last'.op = "receive"
         /\ ForMe(last'.in)
         /\ last'.in.replyId # undefinedNumber
         /\ last'.in.replyId \notin pendingResponses)
        => /\ UNCHANGED <<bridgeVars, asyncs, promise, settles, delivered>>
           /\ last'.resolved = undefinedNumber
           /\ last'.invoked = undefined
           /\ last'.to = <<>>
           /\ last'.raised = undefined ]_vars

\* C10, witness: a reply named n1, for which a handler is registered, to a
\* send that awaited no reply, was dropped.
C10_Witness ==
    /\ last.op = "receive" /\ ForMe(last.in) /\ last.in.replyId = watch
    /\ last.route = "noPending"
    /\ last.in.msg.name = "n1" /\ responseHandlers["n1"] = "h1"
    /\ call.op = "send" /\ ~ call.options.awaitReply

\* C19: an incoming package addressed to this instance that has replyId set
\* is handled as a reply and nothing else: it resolves a pending response or
\* is dropped, no handler is called and no reply is built or sent, also when
\* its name has a registered handler.
C19_ReplyNotDispatched ==
    (/\ last.op = "receive"
     /\ ForMe(last.in)
     /\ last.in.replyId # undefinedNumber)
    => /\ last.route \in {"resolve", "noPending"}
       /\ last.invoked = undefined
       /\ last.out = NoPackage
       /\ last.to = <<>>

\* C19, witness: a reply named n1 resolved a pending response while a
\* handler for n1, which would return a value, was registered.
C19_Witness ==
    /\ last.op = "receive" /\ last.route = "resolve"
    /\ last.in.msg.name = "n1" /\ responseHandlers["n1"] = "h1"
    /\ Len(last.outgoing) >= 1
    /\ last.in.replyId = watch /\ promise.state = "resolved"

\* C28: a send with awaitReply false or absent that finds an outgoing
\* transport gives the package to the transports, creates no pending
\* response and no timer and returns a promise resolved with no value; a
\* reply that arrives for its id afterwards is dropped and changes nothing.
C28_NoAwaitNoPending ==
    /\ [][ (/\ last'.op = "send"
            /\ ~ last'.options.awaitReply
            /\ last'.out # NoPackage)
           => /\ pendingResponses' = pendingResponses
              /\ timers' = timers
              /\ last'.duration = undefinedNumber
              /\ (last'.msg.transportId = undefined /\ last'.fault = 0)
                 => /\ last'.to = last'.outgoing
                    /\ last'.promise = Promise("resolved", undefined, undefined) ]_vars
    /\ [][ (/\ call.op = "send"
            /\ ~ call.options.awaitReply
            /\ last'.op = "receive"
            /\ ForMe(last'.in)
            /\ last'.in.replyId = watch)
           => /\ last'.route = "noPending"
              /\ UNCHANGED <<bridgeVars, promise, settles, delivered>> ]_vars

\* C28, witness: a send without awaitReply was delivered and resolved with no
\* value, and a reply for its id was dropped.
C28_Witness ==
    /\ call.op = "send" /\ ~ call.options.awaitReply /\ call.to = <<"t1">>
    /\ promise = Promise("resolved", undefined, undefined)
    /\ watch \notin pendingResponses \cup timers
    /\ last.op = "receive" /\ ForMe(last.in) /\ last.in.replyId = watch
    /\ last.in.msg.payload = "p1"

(***************************************************************************)
(* FairReplySpec: ReplySpec in which every timer that is armed fires in    *)
(* the end, as setTimeout promises.                                        *)
(***************************************************************************)
FairReplySpec == ReplySpec /\ \A id \in 1..MaxId : WF_vars(Timeout(id))

\* C24: every awaited send completes: a call that is pending is in the end
\* resolved by a reply or rejected, by its timer or by a delivery error,
\* whatever arrives or fails to arrive.
C24_AwaitedSendCompletes ==
    (promise.state = "pending") ~> (promise.state \in {"resolved", "rejected"})

\* C24, witness: an awaited send that no reply answered was rejected by its
\* timer, which left neither entry nor timer.
C24_Witness ==
    /\ call.op = "send" /\ call.options.awaitReply /\ call.promise.state = "pending"
    /\ last.op = "timeout" /\ last.timer = watch /\ last.rejected
    /\ promise = Promise("rejected", ReplyTimeout, undefined)
    /\ watch \notin pendingResponses \cup timers

\* C39: the followed awaited send, addressed to the target T, is resolved
\* only by a reply whose senderId is T.
C39_ResolvedByTargetOnly ==
    (/\ last.op = "receive"
     /\ last.resolved = watch
     /\ call.op = "send" /\ call.out.id = watch)
    => last.in.senderId = call.msg.targetId

(***************************************************************************)
(* ForwardSpec: packages arrive, for this instance and for others, fresh,  *)
(* forwarded by a peer, or coming back; the outgoing registry changes.     *)
(***************************************************************************)
ForwardPackages ==
    { IPackage(1, undefinedNumber, s, f, IMessage(t, g, n, p)) :
        s \in {"peer", Me}, f \in {undefined, Me, "peer"},
        t \in {undefined, "t1"}, g \in {Me, "far"},
        n \in {undefined, "n1"}, p \in Payloads }

ForwardNext ==
    \/ \E id \in TransportIds : AddOutgoing(id)
    \/ \E id \in TransportIds : RemoveOutgoing(id)
    \/ Respond("n1", "h1")
    \/ \E pkg \in ForwardPackages, failAt \in FailAts :
          Receive("t1", pkg, HandlerValue(undefined), failAt)

ForwardSpec == Init /\ [][ForwardNext]_vars

\* C8: an incoming package addressed to another instance, and neither sent
\* nor forwarded by this one, is given once to every registered outgoing
\* transport (none of whose send raises) with forwarderId set to the local
\* id and nothing else changed; a package that arrives with forwarderId
\* equal to the local id is dropped; so the forwarded package, when it comes
\* straight back, is not forwarded again and changes nothing.
C8_ForwardOnce ==
    /\ []((/\ last.op = "receive"
           /\ last.in.msg.targetId # Me
           /\ last.in.senderId # Me
           /\ last.in.forwarderId # Me
           /\ last.raised = undefined)
          => /\ Len(last.to) = Len(last.outgoing)
             /\ \A i \in DOMAIN last.outgoing : Count(last.to, last.outgoing[i]) = 1
             /\ last.out = [last.in EXCEPT !.forwarderId = Me])
    /\ []((last.op = "receive" /\ last.in.forwarderId = Me)
          => last.to = <<>> /\ last.route = "ignoreForwarded")
    /\ [][ (last.route = "forward" /\ last'.op = "receive" /\ last'.again)
           => /\ last'.to = <<>>
              /\ UNCHANGED bridgeVars ]_vars

\* C8, witness: a package for another instance was forwarded on two
\* transports, came back and was dropped.
C8_Witness ==
    /\ last.op = "receive" /\ last.again
    /\ last.in.msg.targetId = "far" /\ last.in.forwarderId = Me
    /\ last.in.senderId = "peer"
    /\ last.route = "ignoreForwarded"
    /\ Len(last.outgoing) = 2

\* C31: forwarding changes only forwarderId: every registered outgoing
\* transport (none of whose send raises) is given, in order and once, the
\* incoming package with the forwarderId replaced by the local id, also
\* when the package carries a transportId or arrived on a transport of the
\* same id; forwarding changes neither the counter, the pending table, the
\* handler table nor the registry, also when no outgoing transport is
\* registered.
C31_ForwardFrame ==
    [][ (/\ last'.op = "receive"
         /\ last'.in.msg.targetId # Me
         /\ last'.in.senderId # Me
         /\ last'.in.forwarderId # Me)
        => /\ last'.route = "forward"
           /\ UNCHANGED <<bridgeVars, asyncs, promise, settles>>
           /\ last'.invoked = undefined
           /\ last'.raised = undefined
              => /\ last'.to = outgoing
                 /\ last'.out = [last'.in EXCEPT !.forwarderId = Me]
                 /\ last'.out.msg = last'.in.msg ]_vars

\* C31, witness: a package for far that carries the transportId t1 and
\* arrived on the incoming transport t1 was given to both registered
\* outgoing transports, the one registered under "" first.
C31_Witness ==
    /\ last.op = "receive" /\ last.route = "forward"
    /\ last.via = "t1" /\ last.in.msg.transportId = "t1"
    /\ last.in.forwarderId = "peer"
    /\ last.to = <<"", "t1">>
    /\ last.out.forwarderId = Me /\ last.out.msg.transportId = "t1"
    /\ responseHandlers["n1"] = "h1"

(***************************************************************************)
(* NetSpec: instances a, b, c relay one message that an instance s, which  *)
(* is not among them, sent to an instance z, which is not among them       *)
(* either.  Every instance has registered one outgoing transport per link  *)
(* that leaves it.  An instance stops once it has forwarded MaxForwards    *)
(* times.                                                                  *)
(***************************************************************************)
MaxForwards == 2

Edges == { e \in Nodes \X Nodes : e[1] # e[2] }

TheMessage ==
    IPackage(1, undefinedNumber, "s", undefined, IMessage(undefined, "z", "n1", "p1"))

RECURSIVE SetToSeq(_)
SetToSeq(S) ==
    IF S = {} THEN <<>>
    ELSE LET x == CHOOSE x \in S : TRUE IN <<x>> \o SetToSeq(S \ {x})

\* The instance n: constructed, then addOutgoing for every link that leaves it.
Relay(n) ==
    [CommsBridge(n) EXCEPT !.outgoing = SetToSeq({ e[2] : e \in { l \in links : l[1] = n } })]

Without(seq, i) == SubSeq(seq, 1, i - 1) \o SubSeq(seq, i + 1, Len(seq))

NetInit ==
    /\ Constructed
    /\ links \in SUBSET Edges
    /\ flight = <<>>
    /\ forwards = [n \in Nodes |-> 0]
    /\ remote = NoRemote

\* s hands the message to an incoming transport of n.
Inject(n) ==
    /\ flight = <<>>
    /\ \A m \in Nodes : forwards[m] = 0
    /\ flight' = <<[to |-> n, via |-> "s", pkg |-> TheMessage]>>
    /\ UNCHANGED <<links, forwards, remote>>
    /\ UNCHANGED <<bridgeVars, regVars, asyncs, watch, promise, settles, delivered, call, last>>

\* An incoming transport of flight[i].to delivers the package.
Deliver(i) ==
    LET d == flight[i]
        r == handleIncomingMessage(Relay(d.to), d.via, d.pkg, HandlerValue(undefined), 0)
    IN  /\ r.route = "forward" => forwards[d.to] < MaxForwards
        /\ flight' = Without(flight, i) \o
                     [j \in 1..Len(r.to) |-> [to |-> r.to[j], via |-> d.to, pkg |-> r.pkg]]
        /\ forwards' = IF r.route = "forward"
                       THEN [forwards EXCEPT ![d.to] = @ + 1]
                       ELSE forwards
        /\ UNCHANGED <<links, remote>>
        /\ UNCHANGED <<bridgeVars, regVars, asyncs, watch, promise, settles, delivered, call, last>>

NetNext ==
    \/ \E n \in Nodes : Inject(n)
    \/ \E i \in DOMAIN flight : Deliver(i)

NetSpec == NetInit /\ [][NetNext]_vars

\* C9: forwarding is loop-safe in every topology: whatever the links between
\* the relays, cycles included, every instance forwards the one message that
\* was sent at most once.
C9_ForwardsOncePerInstance == \A n \in Nodes : forwards[n] <= 1

(***************************************************************************)
(* DispatchSpec: requests addressed to this instance arrive on the         *)
(* incoming transports "" and "t1"; handlers return nothing, a falsy       *)
(* value, a value or a promise, or raise; handler promises complete;       *)
(* callers send without awaiting; the outgoing registry changes.           *)
(***************************************************************************)
DispatchVias == {"", "t1"}

\* What a handler returns or its promise resolves with: nothing, a falsy
\* value that is present (the empty string; 0 and false behave alike), a
\* value.
HandlerResults == {undefined, "", "r1"}

Results == {HandlerThrow, HandlerPromise} \cup { HandlerValue(v) : v \in HandlerResults }

Outcomes == {"reject"} \cup HandlerResults

DispatchMessages == { IMessage(undefined, "far", "n1", "p1") }

Requests ==
    { IPackage(i, r, "peer", undefined, IMessage(undefined, Me, n, "p1")) :
        i \in {5}, r \in {undefinedNumber}, n \in Names }

DispatchNext ==
    \/ \E id \in TransportIds : AddOutgoing(id)
    \/ \E id \in TransportIds : RemoveOutgoing(id)
    \/ Respond("n1", "h1")
    \/ \E msg \in DispatchMessages : Send(msg, NoOptions, 0)
    \/ \E via \in DispatchVias, pkg \in Requests, result \in Results :
          Receive(via, pkg, result, 0)
    \/ \E a \in asyncs, outcome \in Outcomes : AsyncResult(a, outcome, 0)

DispatchSpec == Init /\ [][DispatchNext]_vars

\* The operation sent a handler's result back: a request was dispatched and
\* its handler returned, or a handler promise completed.
Answered(op) ==
    \/ op.op = "receive" /\ op.invoked # undefined /\ op.result.kind = "value"
    \/ op.op = "asyncResult" /\ op.result.value # "reject"

\* The package the operation stamped with an id of this instance, if any.
Originated(op) ==
    /\ op.out # NoPackage
    /\ op.op \in {"send", "asyncResult"} \/ (op.op = "receive" /\ op.route = "dispatch")

\* C11: when a handler produces a result for a request (id i, sender s) that
\* arrived on incoming transport t, and an outgoing transport is registered
\* under t, the reply is given to that transport only, once, and carries
\* replyId = i, targetId = s, senderId = the local id, the next id of the
\* local counter and the handler's result as payload; for every t.
C11_ReplyViaSameTransport ==
    (/\ Answered(last)
     /\ Truthy(last.result.value)
     /\ Has(last.outgoing, last.via))
    => /\ last.to = <<last.via>>
       /\ last.out = IPackage(nextId - 1, last.in.id, Me, undefined,
                              IMessage(last.via, last.in.senderId, undefined,
                                       last.result.value))

\* C12: for every handler result that is present (anything but undefined),
\* returned or resolved, a reply to the request is sent.
C12_PresentResultReplied ==
    (/\ Answered(last)
     /\ last.result.value # undefined
     /\ Has(last.outgoing, last.via))
    => /\ last.out.replyId = last.in.id
       /\ last.to # <<>>

\* C13: when the handler returns no value, or its promise resolves with no
\* value, no reply is built and no outgoing transport is called.
C13_NoResultNoReply ==
    (Answered(last) /\ last.result.value = undefined)
    => /\ last.out = NoPackage
       /\ last.to = <<>>
       /\ last.raised = undefined

\* C13, witness: a handler promise resolved with no value while the outgoing
\* transport of the request's incoming transport was registered.
C13_Witness ==
    /\ last.op = "asyncResult" /\ last.result.value = undefined
    /\ last.via = "t1" /\ Has(last.outgoing, "t1")
    /\ last.in.id = 5

\* C16: the ids this instance stamps on the packages it originates, sends
\* and handler replies alike, start at 1 and each is one more than the one
\* before; the counter never goes back, so no id is used twice.
C16_IdsIncrease ==
    /\ [](nextId >= 1 /\ (Originated(last) => last.out.id \in 1..(nextId - 1)))
    /\ [][ /\ nextId' >= nextId
           /\ Originated(last') => (last'.out.id = nextId /\ nextId' = nextId + 1)
           /\ nextId = 1 => (Originated(last') => last'.out.id = 1) ]_vars

\* C16, witness: a send was stamped 1 and the reply of a handler promise 2.
C16_Witness ==
    /\ last.op = "asyncResult" /\ last.out.id = 2 /\ last.to # <<>>
    /\ watch = 1 /\ call.op = "send" /\ call.out.id = 1

\* C18: every package this instance gives to an outgoing transport for a
\* send or for a handler reply carries the local id as senderId.
C18_SenderStamped ==
    (Originated(last) /\ last.to # <<>>) => last.out.senderId = Me

\* C18, witness: the reply to a request of peer went out on t1.
C18_Witness ==
    /\ last.op = "receive" /\ last.route = "dispatch"
    /\ last.in.senderId = "peer" /\ last.to = <<"t1">>
    /\ last.out.senderId = Me /\ last.out.msg.targetId = "peer"

\* C20: handling an incoming package never raises into the callback of the
\* incoming transport.
C20_NeverRaises == last.op = "receive" => last.raised = undefined

\* C21: an incoming package addressed to this instance, not a reply, whose
\* name has no registered handler is dropped: nothing is raised, no handler
\* is called, nothing is sent and no state of the instance changes, so the
\* packages that follow are handled as before.
C21_NoHandlerDropped ==
    [][ (/\ last'.op = "receive"
         /\ ForMe(last'.in)
         /\ last'.in.replyId = undefinedNumber
         /\ Truthy(last'.in.msg.name)
         /\ responseHandlers[last'.in.msg.name] = undefined)
        => /\ last'.route = "noHandler"
           /\ last'.raised = undefined
           /\ last'.invoked = undefined
           /\ last'.out = NoPackage
           /\ last'.to = <<>>
           /\ UNCHANGED <<bridgeVars, asyncs, promise, settles, delivered>> ]_vars

\* C21, witness: a package named n2 was dropped while a handler for n1 and
\* an outgoing transport for the reply were registered.
C21_Witness ==
    /\ last.op = "receive" /\ last.route = "noHandler"
    /\ last.in.msg.name = "n2" /\ responseHandlers["n1"] = "h1"
    /\ Has(last.outgoing, last.via)

\* C40: when the outgoing transport registered under the id of the incoming
\* transport a request arrived on is no longer registered at the time the
\* promise of its handler resolves with a value, no transport is given a
\* reply, nothing is raised out of the router, and the only change of state
\* is that the counter has advanced by one.
C40_ReplyTransportRemoved ==
    [][ (/\ last'.op = "asyncResult"
         /\ last'.result.value # "reject"
         /\ Truthy(last'.result.value)
         /\ ~ Has(outgoing, last'.via))
        => /\ last'.to = <<>>
           /\ last'.raised = undefined
           /\ nextId' = nextId + 1
           /\ UNCHANGED <<responseHandlers, outgoing, pendingResponses, timers,
                          promise, settles>> ]_vars

(***************************************************************************)
(* RegistrySpec: incoming transports are added and removed.                *)
(***************************************************************************)
RegistryNext ==
    \/ \E id \in IncomingIds, t \in IncomingTransports : AddIncoming(id, t)
    \/ \E id \in IncomingIds : RemoveIncoming(id)

RegistrySpec == Init /\ [][RegistryNext]_vars

\* C15: removeIncoming(id) of a registered id calls the disconnect of the
\* transport registered under it exactly once, calls nothing else and
\* removes the entry; removeIncoming of an id that has no entry, never
\* registered or already removed, calls nothing.
C15_DisconnectOnce ==
    [][ last'.op = "removeIncoming"
        => /\ incoming' = [incoming EXCEPT ![last'.id] = undefined]
           /\ last'.calls = IF incoming[last'.id] # undefined
                            THEN <<TransportCall(incoming[last'.id], "disconnect")>>
                            ELSE <<>>
           /\ (last.op = "removeIncoming" /\ last.id = last'.id) => last'.calls = <<>> ]_vars

\* C15, witness: the transport A registered under i1 was removed and
\* disconnected while B stays registered under "".
C15_Witness ==
    /\ last.op = "removeIncoming" /\ last.id = "i1"
    /\ last.calls = <<TransportCall("A", "disconnect")>>
    /\ incoming["i1"] = undefined /\ incoming[""] = "B"
    /\ wired["A"] = {}

\* C33: after any sequence of addIncoming and removeIncoming the
\* transports that are connected (a callback of theirs is wired to the
\* router) are exactly the transports held in the incoming registry, and
\* each callback closes over an id under which its transport is registered.
C33_ConnectedAreRegistered ==
    \A t \in IncomingTransports :
        /\ wired[t] # {} <=> \E id \in IncomingIds : incoming[id] = t
        /\ \A id \in wired[t] : incoming[id] = t

(***************************************************************************)
(* RouteSpec: packages of every addressing reach an instance whose         *)
(* handler for n1 is registered and replaced.                              *)
(***************************************************************************)
RouteHandlers == {"h1", "h2"}

RoutePackages ==
    { IPackage(5, r, s, f, IMessage(undefined, t, "n1", p)) :
        r \in {undefinedNumber, 1}, s \in {"peer", Me}, f \in {undefined, Me},
        t \in {Me, "far"}, p \in Payloads }

RouteNext ==
    \/ AddOutgoing("t1")
    \/ RemoveOutgoing("t1")
    \/ \E h \in RouteHandlers : Respond("n1", h)
    \/ Send(IMessage(undefined, "far", "n1", "p1"), ISendOptions(TRUE, undefinedNumber), 0)
    \/ \E pkg \in RoutePackages : Receive("t1", pkg, HandlerValue("r1"), 0)

RouteSpec == Init /\ [][RouteNext]_vars

\* C25: respond(N, h) replaces the handler of N; a package named N that is
\* dispatched invokes the handler registered last, once, and no handler
\* registered before it.
C25_LastHandlerWins ==
    /\ [][ last'.op = "respond"
           => responseHandlers' =
                 [responseHandlers EXCEPT ![last'.id] = last'.handler] ]_vars
    /\ [][ (/\ last.op = "respond"
            /\ last'.op = "receive"
            /\ last'.route = "dispatch"
            /\ last'.in.msg.name = last.id)
           => last'.invoked = last.handler ]_vars
    /\ [](last.op = "receive" /\ last.invoked # undefined
          => last.invoked = responseHandlers[last.in.msg.name])

\* C25, witness: h1 was registered and invoked (its reply was stamped with
\* the followed id), then h2 replaced it and was invoked by the next
\* package named n1.
C25_Witness ==
    /\ call.op = "receive" /\ call.invoked = "h1"
    /\ last.op = "receive" /\ last.invoked = "h2"
    /\ last.in.msg.name = "n1" /\ last.arg = last.in.msg.payload

\* C26: a handler is invoked, once and with the payload of the package,
\* exactly for the packages whose target is this instance, whose sender and
\* forwarder are not this instance and that carry no replyId (and whose
\* name has a handler); a package for another instance invokes none.
C26_InvokedOnlyForRequests ==
    last.op = "receive"
    => /\ last.invoked # undefined
          <=> /\ ForMe(last.in)
              /\ last.in.replyId = undefinedNumber
              /\ responseHandlers[last.in.msg.name] # undefined
       /\ last.invoked # undefined
          => /\ last.arg = last.in.msg.payload
             /\ last.invoked = responseHandlers[last.in.msg.name]
       /\ last.in.msg.targetId # Me => last.invoked = undefined

\* C26, witness: a package named n1 for the instance far arrived while a
\* handler for n1 was registered; it was forwarded and no handler ran.
C26_Witness ==
    /\ last.op = "receive" /\ last.in.msg.targetId = "far"
    /\ last.in.senderId = "peer" /\ last.in.forwarderId = undefined
    /\ last.in.replyId = undefinedNumber
    /\ responseHandlers["n1"] = "h2"
    /\ last.invoked = undefined /\ last.to # <<>>

\* C32: the routing steps are taken in order: a package whose forwarderId
\* or senderId is the local id is dropped with no effect (nothing
\* forwarded, no pending response resolved, no handler called, no reply,
\* no state change), whatever its targetId, replyId and name are, also
\* when its replyId is the id of a pending response.
C32_OwnPackagesDropped ==
    [][ (/\ last'.op = "receive"
         /\ \/ last'.in.forwarderId = Me
            \/ last'.in.senderId = Me)
        => /\ last'.route = IF last'.in.forwarderId = Me
                            THEN "ignoreForwarded" ELSE "ignoreOwn"
           /\ last'.to = <<>>
           /\ last'.out = NoPackage
           /\ last'.invoked = undefined
           /\ last'.resolved = undefinedNumber
           /\ last'.raised = undefined
           /\ UNCHANGED <<bridgeVars, asyncs, promise, settles, delivered>> ]_vars

\* C32, witness: a package sent by this instance, addressed to it and
\* carrying the replyId of the pending followed send, was dropped; the call
\* is still pending.
C32_Witness ==
    /\ last.op = "receive" /\ last.route = "ignoreOwn"
    /\ last.in.senderId = Me /\ last.in.msg.targetId = Me
    /\ last.in.replyId = watch /\ watch \in pendingResponses
    /\ promise.state = "pending"
    /\ responseHandlers["n1"] # undefined

\* The fields of a package other than the payload.
Envelope(pkg) == [pkg EXCEPT !.msg.payload = undefined]

\* What the router does with pkg in the present state, the handler, if one
\* is called, returning r1.
Routing(pkg) == handleIncomingMessage(This, "t1", pkg, HandlerValue("r1"), 0)

\* C37: routing reads the envelope only: from the same state, two packages
\* that differ only in their payload take the same route, call the same
\* handler or resolve the same call, leave the instance in the same state
\* and give the same transports a package with the same envelope.
C37_PayloadBlind ==
    \A pkg \in RoutePackages, payload \in Payloads :
        LET one == Routing(pkg)
            other == Routing([pkg EXCEPT !.msg.payload = payload])
        IN  /\ one.route = other.route
            /\ one.to = other.to
            /\ one.raised = other.raised
            /\ one.invoked = other.invoked
            /\ one.resolved = other.resolved
            /\ one.bridge = other.bridge
            /\ Envelope(one.pkg) = Envelope(other.pkg)

\* C37, witness: a state in which the packages are routed in every way
\* (dropped, forwarded to a transport, resolving a pending call, dispatched
\* to a handler whose reply is sent), the last one received having been
\* dispatched with the payload p2.
C37_Witness ==
    /\ last.op = "receive" /\ last.route = "dispatch" /\ last.arg = "p2"
    /\ last.to # <<>>
    /\ \A route \in {"ignoreForwarded", "ignoreOwn", "forward", "resolve", "dispatch"} :
          \E pkg \in RoutePackages :
             /\ Routing(pkg).route = route
             /\ route \in {"forward", "dispatch"} => Routing(pkg).to # <<>>

(***************************************************************************)
(* EchoSpec: outgoing transports that answer from inside their send call.  *)
(* The transports in `echoing` call the incoming callback of the instance  *)
(* with a reply to the package they are given before their send returns.   *)
(***************************************************************************)
\* A send that registers the pending response after the delivery.
awaiting_late(b, id) == b

\* Lines 243-255: the timer is started and the pending response is stored.
awaiting(b, id) ==
    [b EXCEPT !.timers = @ \cup {id}, !.pendingResponses = @ \cup {id}]

\* The reply the transport builds from the package it was given.
Echo(b, pkg, payload) ==
    IPackage(undefinedNumber, pkg.id, undefined, undefined,
             IMessage(undefined, b.id, undefined, payload))

\* The calls of send made in order; those of `echoing` re-enter
\* handleIncomingMessage on the state the instance is in at that moment.
RECURSIVE Echoed(_, _, _, _)
Echoed(b, to, echoing, echo) ==
    IF to = <<>>
    THEN [bridge |-> b, resolved |-> undefinedNumber, value |-> undefined,
          echoed |-> <<>>]
    ELSE LET h == IF Head(to) \in echoing
                  THEN handleIncomingMessage(b, Head(to), echo,
                                             HandlerValue(undefined), 0)
                  ELSE [bridge |-> b, resolved |-> undefinedNumber,
                        value |-> undefined]
             rest == Echoed(h.bridge, Tail(to), echoing, echo)
         IN  [bridge |-> rest.bridge,
              resolved |-> IF h.resolved # undefinedNumber
                           THEN h.resolved ELSE rest.resolved,
              value |-> IF h.resolved # undefinedNumber
                        THEN h.value ELSE rest.value,
              echoed |-> IF Head(to) \in echoing
                         THEN <<Head(to)>> \o rest.echoed ELSE rest.echoed]

\* send (lines 219-264) with the transports' calls followed into the
\* instance.
sendReentrant(b, msg, options, echoing, payload) ==
    IF NoOutgoing(b)
    THEN [bridge |-> b, pkg |-> NoPackage, to |-> <<>>,
          promise |-> Promise("rejected", NoTransport, undefined),
          duration |-> undefinedNumber, echo |-> NoPackage, echoed |-> <<>>,
          resolved |-> undefinedNumber, value |-> undefined]
    ELSE LET wrappedMessage == IPackage(b.nextId, undefinedNumber, b.id, undefined, msg)
             b1 == [b EXCEPT !.nextId = @ + 1]
             seen == IF options.awaitReply THEN awaiting(b1, wrappedMessage.id) ELSE b1
             sent == _send(seen, wrappedMessage, 0)
             echo == Echo(b, wrappedMessage, payload)
             r == Echoed(seen, sent.to, echoing, echo)
         IN  [bridge |-> r.bridge, pkg |-> wrappedMessage, to |-> sent.to,
              promise |-> IF ~ options.awaitReply
                          THEN IF sent.raised # undefined
                               THEN Promise("threw", sent.raised, undefined)
                               ELSE Promise("resolved", undefined, undefined)
                          ELSE IF r.resolved = wrappedMessage.id
                          THEN Promise("resolved", undefined, r.value)
                          ELSE IF sent.raised # undefined
                          THEN Promise("rejected", sent.raised, undefined)
                          ELSE Promise("pending", undefined, undefined),
              duration |-> IF options.awaitReply THEN Duration(options)
                           ELSE undefinedNumber,
              echo |-> echo, echoed |-> r.echoed,
              resolved |-> r.resolved, value |-> r.value]

SendEcho(msg, options, echoing, payload) ==
    LET r == sendReentrant(This, msg, options, echoing, payload)
    IN  /\ r.bridge.nextId <= MaxId + 1
        /\ Becomes(r.bridge)
        /\ promise' = IF r.pkg.id = watch THEN r.promise ELSE promise
        /\ settles' = IF r.pkg.id = watch /\ r.resolved = watch
                      THEN settles + 1 ELSE settles
        /\ delivered' = Watched(r.pkg, r.to)
        /\ last' = [Op("send") EXCEPT !.msg = msg, !.options = options,
                                      !.out = r.pkg, !.to = r.to,
                                      !.promise = r.promise,
                                      !.duration = r.duration,
                                      !.echo = r.echo, !.echoed = r.echoed,
                                      !.resolved = r.resolved,
                                      !.value = r.value]
        /\ Recorded(r.bridge)
        /\ UNCHANGED <<asyncs, watch>>

EchoMessages ==
    { IMessage(t, "far", "n1", "p1") : t \in {undefined, "t1"} }

Echoing == {{}, {"t1"}, TransportIds}

EchoNext ==
    \/ \E id \in TransportIds : AddOutgoing(id)
    \/ \E id \in TransportIds : RemoveOutgoing(id)
    \/ \E msg \in EchoMessages, echoing \in Echoing, payload \in Payloads :
          SendEcho(msg, ISendOptions(TRUE, undefinedNumber), echoing, payload)
    \/ \E id \in 1..MaxId : Timeout(id)

EchoSpec == Init /\ [][EchoNext]_vars

\* C29: in an awaited send the pending response is stored before the
\* delivery, so a reply with replyId = the id of the package, given to the
\* instance by a transport from inside its send call, resolves the call
\* with the payload of that reply and removes the pending entry and timer.
C29_ReplyFromInsideSend ==
    (/\ last.op = "send"
     /\ last.options.awaitReply
     /\ last.echoed # <<>>)
    => /\ last.promise = Promise("resolved", undefined, last.echo.msg.payload)
       /\ last.echo.replyId = last.out.id
       /\ last.out.id \notin pendingResponses
       /\ last.out.id \notin timers
       /\ last.out.id = watch => promise = last.promise /\ settles = 1

\* C29, witness: the followed awaited send was broadcast to two transports,
\* both answered from inside their send call and the call is resolved with
\* the payload p2.
C29_Witness ==
    /\ last.op = "send" /\ last.options.awaitReply
    /\ last.out.id = watch
    /\ Len(last.to) = 2 /\ last.echoed = last.to
    /\ promise = Promise("resolved", undefined, "p2")
    /\ watch \notin pendingResponses

(***************************************************************************)
(* E2ESpec: the instance me and a second instance far.  links holds two    *)
(* tuples <<m, o, n, i>>: the outgoing transport that m registered under   *)
(* the id o hands its packages to the incoming transport that n registered *)
(* under the id i.  far has registered that outgoing transport and a       *)
(* handler for n1; me registers its outgoing transports as it goes.  A     *)
(* timer fires only when no package is in flight and no handler promise of *)
(* far is open: the transports are faster than the timeout.  me sends its  *)
(* next request when the one before has been dealt with.                   *)
(***************************************************************************)
Wirings ==
    { {<<Me, ao, "far", bi>>, <<"far", bo, Me, ai>>} :
        ao \in TransportIds, bi \in TransportIds,
        bo \in TransportIds, ai \in TransportIds }

LinkOf(m) == CHOOSE l \in links : l[1] = m

Far(bo) ==
    [bridge |-> [CommsBridge("far") EXCEPT !.outgoing = <<bo>>,
                                             !.responseHandlers["n1"] = "h1"],
     asyncs |-> {}]

E2EInit ==
    /\ Constructed
    /\ links \in Wirings
    /\ flight = <<>>
    /\ forwards = [n \in Nodes |-> 0]
    /\ remote = Far(LinkOf("far")[2])

\* What the transports called by m do with the package: the linked one
\* hands it to the other side.
Handed(m, to, pkg) ==
    LET l == LinkOf(m)
    IN  IF \E i \in DOMAIN to : to[i] = l[2]
        THEN <<[to |-> l[3], via |-> l[4], pkg |-> pkg]>>
        ELSE <<>>

Assigns(b) ==
    /\ nextId' = b.nextId
    /\ responseHandlers' = b.responseHandlers
    /\ outgoing' = b.outgoing
    /\ pendingResponses' = b.pendingResponses
    /\ timers' = b.timers
    /\ UNCHANGED regVars

Quiet == flight = <<>> /\ remote.asyncs = {}

\* me.send(msg, { awaitReply: true }).
ESend(msg) ==
    LET options == ISendOptions(TRUE, undefinedNumber)
        r == send(This, msg, options, 0)
    IN  /\ r.bridge.nextId <= MaxId + 1
        /\ Assigns(r.bridge)
        /\ promise' = IF r.pkg.id = watch THEN r.promise ELSE promise
        /\ delivered' = Watched(r.pkg, r.to)
        /\ flight' = flight \o Handed(Me, r.to, r.pkg)
        /\ last' = [Op("send") EXCEPT !.msg = msg, !.options = options,
                                      !.out = r.pkg, !.to = r.to,
                                      !.promise = r.promise,
                                      !.duration = r.duration]
        /\ Recorded(r.bridge)
        /\ UNCHANGED <<asyncs, watch, settles, links, forwards, remote>>

\* The incoming transport of far delivers flight[i]; the handler does
\* `result`.
EDeliverFar(i, result) ==
    LET d == flight[i]
        r == handleIncomingMessage(remote.bridge, d.via, d.pkg, result, 0)
    IN  /\ d.to = "far"
        /\ remote' = [bridge |-> r.bridge,
                      asyncs |-> IF r.async
                                 THEN remote.asyncs \cup
                                      {[via |-> d.via, id |-> d.pkg.id,
                                        senderId |-> d.pkg.senderId]}
                                 ELSE remote.asyncs]
        /\ flight' = Without(flight, i) \o Handed("far", r.to, r.pkg)
        /\ last' = [Op("receive") EXCEPT !.at = "far",
                                         !.outgoing = remote.bridge.outgoing,
                                         !.via = d.via, !.in = d.pkg,
                                         !.out = r.pkg, !.to = r.to,
                                         !.raised = r.raised, !.route = r.route,
                                         !.invoked = r.invoked, !.arg = r.arg,
                                         !.result = IF r.invoked # undefined
                                                    THEN result
                                                    ELSE HandlerValue(undefined)]
        /\ call' = IF d.pkg.id = watch THEN last' ELSE call
        /\ UNCHANGED <<bridgeVars, regVars, asyncs, watch, promise, settles,
                       delivered, links, forwards>>

\* A handler promise of far completes with `outcome`.
ECompleteFar(a, outcome) ==
    LET r == onAsyncResult(remote.bridge, a.via, Request(a), outcome, 0)
    IN  /\ a \in remote.asyncs
        /\ remote' = [bridge |-> r.bridge, asyncs |-> remote.asyncs \ {a}]
        /\ flight' = flight \o Handed("far", r.to, r.pkg)
        /\ last' = [Op("asyncResult") EXCEPT !.at = "far",
                                             !.outgoing = remote.bridge.outgoing,
                                             !.via = a.via, !.in = Request(a),
                                             !.out = r.pkg, !.to = r.to,
                                             !.raised = r.raised,
                                             !.result = HandlerValue(outcome),
                                             !.contained = r.contained]
        /\ call' = IF a.id = watch THEN last' ELSE call
        /\ UNCHANGED <<bridgeVars, regVars, asyncs, watch, promise, settles,
                       delivered, links, forwards>>

\* The incoming transport of me delivers flight[i].
EDeliverMe(i) ==
    LET d == flight[i]
        r == handleIncomingMessage(This, d.via, d.pkg, HandlerValue(undefined), 0)
    IN  /\ d.to = Me
        /\ Assigns(r.bridge)
        /\ promise' = IF r.resolved = watch
                      THEN Settle(promise, "resolved", undefined, r.value)
                      ELSE promise
        /\ settles' = IF r.resolved = watch THEN settles + 1 ELSE settles
        /\ flight' = Without(flight, i) \o Handed(Me, r.to, r.pkg)
        /\ last' = [Op("receive") EXCEPT !.via = d.via, !.in = d.pkg,
                                         !.out = r.pkg, !.to = r.to,
                                         !.raised = r.raised, !.route = r.route,
                                         !.resolved = r.resolved, !.value = r.value,
                                         !.invoked = r.invoked, !.arg = r.arg]
        /\ UNCHANGED <<asyncs, watch, delivered, call, links, forwards, remote>>

ETimeout(id) == Quiet /\ Timeout(id)

E2EResults == {HandlerThrow, HandlerPromise, HandlerValue("r1"), HandlerValue("")}

E2EOutcomes == {"reject", "r1"}

E2ENext ==
    \/ \E id \in TransportIds : AddOutgoing(id)
    \/ Quiet /\ ESend(IMessage(undefined, "far", "n1", "p1"))
    \/ \E i \in DOMAIN flight, result \in E2EResults : EDeliverFar(i, result)
    \/ \E a \in remote.asyncs, outcome \in E2EOutcomes : ECompleteFar(a, outcome)
    \/ \E i \in DOMAIN flight : EDeliverMe(i)
    \/ \E id \in 1..MaxId : ETimeout(id)

E2ESpec == E2EInit /\ [][E2ENext]_vars

\* The handler of far failed on the followed request: it raised, or the
\* promise it returned was rejected.
HandlerFailed(o) ==
    /\ o.at = "far"
    /\ \/ o.op = "receive" /\ o.invoked # undefined /\ o.result = HandlerThrow
       \/ o.op = "asyncResult" /\ o.result = HandlerValue("reject")

\* C22: when the handler fails, by raising or by the rejection of the
\* promise it returned, nothing is raised at the receiving instance, no
\* reply is sent for the request, and the call of the sender that awaits it
\* is never resolved: if it settles, it is rejected by its timeout.
C22_HandlerFailureContained ==
    /\ HandlerFailed(last)
       => /\ last.raised = undefined
          /\ last.out = NoPackage
          /\ last.to = <<>>
    /\ HandlerFailed(call)
       => \/ promise = Promise("pending", undefined, undefined)
          \/ promise = Promise("rejected", ReplyTimeout, undefined)

\* C22, witness: the promise returned by the handler of far for the
\* followed request was rejected; the call at me was then rejected by its
\* timer.
C22_Witness ==
    /\ call.op = "asyncResult" /\ HandlerFailed(call)
    /\ call.contained = "HandlerFailure"
    /\ last.op = "timeout" /\ last.timer = watch /\ last.rejected
    /\ promise = Promise("rejected", ReplyTimeout, undefined)

LiveIds == MsgTransportIds

NoReentry == [by |-> undefined, call |-> undefined, id |-> undefined]

Reentries ==
    {NoReentry} \cup
    { [by |-> by, call |-> c, id |-> id] :
        by \in TransportIds, c \in {"addOutgoing", "removeOutgoing"}, id \in {"t2"} }

IndexOf(map, key) == CHOOSE i \in 1..Len(map) : map[i] = key

\* The iterator of this.outgoing.values() standing at entry i: a JavaScript
\* Map iterator walks the live Map, so it reaches entries appended during
\* the loop and never reaches entries deleted before their turn.
RECURSIVE values(_, _, _)
values(map, i, reentry) ==
    IF i > Len(map)
    THEN [outgoing |-> map, to |-> <<>>]
    ELSE LET t == map[i]
             b == [CommsBridge(Me) EXCEPT !.outgoing = map]
             after == IF reentry.by # t THEN map
                      ELSE IF reentry.call = "addOutgoing"
                      THEN addOutgoing(b, reentry.id).outgoing
                      ELSE removeOutgoing(b, reentry.id).outgoing
             next == IF Has(after, t) THEN IndexOf(after, t) + 1 ELSE i
             rest == values(after, next, reentry)
         IN  [outgoing |-> rest.outgoing, to |-> <<t>> \o rest.to]

\* send(msg) without awaitReply and without transportId (lines 219-264,
\* 285-292), the loop followed into the transports' calls.
sendLive(b, msg, reentry) ==
    IF NoOutgoing(b)
    THEN [bridge |-> b, pkg |-> NoPackage, to |-> <<>>,
          promise |-> Promise("rejected", NoTransport, undefined)]
    ELSE LET wrappedMessage == IPackage(b.nextId, undefinedNumber, b.id, undefined, msg)
             b1 == [b EXCEPT !.nextId = @ + 1]
             sent == values(b1.outgoing, 1, reentry)
         IN  [bridge |-> [b1 EXCEPT !.outgoing = sent.outgoing],
              pkg |-> wrappedMessage, to |-> sent.to,
              promise |-> Promise("resolved", undefined, undefined)]

SendLive(msg, reentry) ==
    LET r == sendLive(This, msg, reentry)
    IN  /\ r.bridge.nextId <= MaxId + 1
        /\ Becomes(r.bridge)
        /\ promise' = IF r.pkg.id = watch THEN r.promise ELSE promise
        /\ delivered' = Watched(r.pkg, r.to)
        /\ last' = [Op("send") EXCEPT !.msg = msg, !.out = r.pkg, !.to = r.to,
                                      !.promise = r.promise,
                                      !.reentry = reentry]
        /\ Recorded(r.bridge)
        /\ UNCHANGED <<asyncs, watch, settles>>

LiveNext ==
    \/ \E id \in LiveIds : AddOutgoing(id)
    \/ \E id \in LiveIds : RemoveOutgoing(id)
    \/ \E reentry \in Reentries :
          SendLive(IMessage(undefined, "far", "n1", "p1"), reentry)

LiveSpec == Init /\ [][LiveNext]_vars

\* C34: a broadcast gives the package to exactly the outgoing transports
\* that were registered when it started, each once and in order, also when
\* a transport's send call adds or removes outgoing transports during it.
C34_BroadcastSnapshot ==
    (last.op = "send" /\ last.out # NoPackage) => last.to = last.outgoing

(***************************************************************************)
(* TimerSpec: callers give awaited sends a timeout: none, 0 or 7 ms.       *)
(***************************************************************************)
Timeouts == {undefinedNumber, 0, 7}

TimerOptions ==
    { ISendOptions(TRUE, t) : t \in Timeouts } \cup {NoOptions}

TimerNext ==
    \/ AddOutgoing("t1")
    \/ RemoveOutgoing("t1")
    \/ \E options \in TimerOptions :
          Send(IMessage(undefined, "far", "n1", "p1"), options, 0)
    \/ \E id \in 1..MaxId : Timeout(id)

TimerSpec == Init /\ [][TimerNext]_vars

\* C36: the timer of an awaited send runs for options.timeout whenever the
\* caller gave a timeout, 0 included, and for 5000 ms only when none was
\* given.
C36_TimerDuration ==
    (last.op = "send" /\ last.options.awaitReply /\ last.out # NoPackage)
    => last.duration = IF last.options.timeout = undefinedNumber
                       THEN defaultTimeout
                       ELSE last.options.timeout

(***************************************************************************)
(* AsyncSpec: two requests, from peer on the incoming transport t1 and     *)
(* from far on t2, are given to a handler that returns a promise; while    *)
(* the promises are open other packages arrive (one to forward, a reply to *)
(* an awaited send); the promises complete in any order, the one of        *)
(* request 5 with r1 and the one of request 6 with r2, or are rejected.    *)
(***************************************************************************)
MaxOpen == 2

AsyncIds == {"t1", "t2"}

AsyncRequests ==
    { [via |-> "t1",
       pkg |-> IPackage(5, undefinedNumber, "peer", undefined,
                        IMessage(undefined, Me, "n1", "p1"))],
      [via |-> "t2",
       pkg |-> IPackage(6, undefinedNumber, "far", undefined,
                        IMessage(undefined, Me, "n1", "p2"))] }

AsyncOthers ==
    { IPackage(7, undefinedNumber, "peer", undefined,
               IMessage(undefined, "z", "n1", "p1")),
      IPackage(8, 1, "far", undefined,
               IMessage(undefined, Me, undefined, "p2")) }

\* What the promise of the handler called for the request a resolves with.
ValueFor(a) == IF a.id = 5 THEN "r1" ELSE "r2"

AsyncNext ==
    \/ \E id \in AsyncIds : AddOutgoing(id)
    \/ Respond("n1", "h1")
    \/ Send(IMessage(undefined, "far", "n1", "p1"), ISendOptions(TRUE, undefinedNumber), 0)
    \/ \E q \in AsyncRequests : ReceiveUpTo(MaxOpen, q.via, q.pkg, HandlerPromise, 0)
    \/ \E pkg \in AsyncOthers : Receive("t1", pkg, HandlerValue(undefined), 0)
    \/ \E a \in asyncs : \E outcome \in {"reject", ValueFor(a)} :
          AsyncResult(a, outcome, 0)

AsyncSpec == Init /\ [][AsyncNext]_vars

\* The request whose handler resolves with the value v.
RequestOf(v) == CHOOSE q \in AsyncRequests : ValueFor(q.pkg) = v

\* C35: while handler promises are open the router handles the packages
\* that arrive as it does otherwise (it forwards, resolves pending calls,
\* calls handlers), and whatever the order in which the promises complete,
\* the reply that carries the result of a request has the replyId of that
\* request, its sender as targetId and the incoming transport it arrived on
\* as transportId, and is given to that transport only.
C35_RepliesKeepTheirRequest ==
    /\ []((last.op = "asyncResult" /\ last.out # NoPackage)
          => LET q == RequestOf(last.out.msg.payload)
             IN  /\ last.out.replyId = q.pkg.id
                 /\ last.out.msg.targetId = q.pkg.senderId
                 /\ last.out.msg.transportId = q.via
                 /\ last.out.senderId = Me
                 /\ last.to \in {<<>>, <<q.via>>})
    /\ [][ (last'.op = "receive" /\ asyncs # {})
           => /\ last'.raised = undefined
              /\ last'.in.msg.targetId # Me
                 => last'.route = "forward" /\ last'.to = outgoing
              /\ last'.in.replyId # undefinedNumber /\ last'.in.msg.targetId = Me
                 => /\ last'.resolved = last'.in.replyId
                       <=> last'.in.replyId \in pendingResponses
                    /\ last'.resolved # undefinedNumber
                       => last'.value = last'.in.msg.payload
              /\ (/\ last'.in.replyId = undefinedNumber
                  /\ last'.in.msg.targetId = Me
                  /\ responseHandlers[last'.in.msg.name] # undefined)
                 => /\ last'.invoked = responseHandlers[last'.in.msg.name]
                    /\ last'.arg = last'.in.msg.payload ]_vars

\* C35, witness: both promises were open; the one of the later request 6
\* completed first and its reply, stamped with the followed id, went to far
\* on t2; the one of request 5 completed after it and its reply went to
\* peer on t1.
C35_Witness ==
    /\ call.op = "asyncResult" /\ call.out.replyId = 6
    /\ call.out.msg.targetId = "far" /\ call.to = <<"t2">>
    /\ last.op = "asyncResult" /\ last.out.replyId = 5
    /\ last.out.msg.targetId = "peer" /\ last.to = <<"t1">>
    /\ last.out.id = call.out.id + 1

====
